---- MODULE Spec2Model ----
(***************************************************************************)
(* Model of realtek_mst_i2c_spi.c: the command-emulation engine that maps  *)
(* SPI operations onto the register protocol of the Realtek MST MCU.       *)
(*                                                                         *)
(* Every register access is a blocking round trip that the transport may   *)
(* fail; the hardware's answers (transfer success, byte read) are chosen   *)
(* nondeterministically.  The register traffic of the operation in         *)
(* progress is recorded in the history variable log.                       *)
(***************************************************************************)
EXTENDS Integers, Sequences, FiniteSets, TLC

VARIABLES
    op,      \* the engine function the host called ("idle" when none)
    pc,      \* position inside that function
    arg,     \* the arguments of the call
    st,      \* its local variables: ret, i and execute_write's ret
    w,       \* the frame of realtek_mst_i2c_spi_wait_command_done
    log,     \* register traffic issued by the call so far
    result,  \* the value the call returned (meaningful at pc = "done")
    fd,      \* the I2C transport handle: "none", "open" or "closed"
    mst_data, \* the session struct: "none", "allocated" or "freed"
    hook,    \* the shutdown hook at the host: "none", "registered" or "run"
    master   \* whether the SPI master is registered with the host

vars == <<op, pc, arg, st, w, log, result, fd, mst_data, hook, master>>

\* the session: the handle, its owner and the host's references to it
life == <<fd, mst_data, hook, master>>

----------------------------------------------------------------------------
(* Program constants. *)

PAGE_SIZE == 256
MAX_SPI_WAIT_RETRIES == 1000

MCU_MODE == \H6F
ENTER_ISP_MODE == \H80
START_WRITE_XFER == \HA0
WRITE_XFER_STATUS_MASK == \H20
MCU_DATA_PORT == \H70
MAP_PAGE_BYTE2 == \H64
MAP_PAGE_BYTE1 == \H65
MAP_PAGE_BYTE0 == \H66
OPCODE_READ == 3

\* the transfer limits of struct spi_master spi_master_i2c_realtek_mst
max_data_read == 16
max_data_write == 8

\* spi.h is not part of the sources at hand; flashrom defines it as -1.
SPI_GENERIC_ERROR == -1

\* The JEDEC opcodes come from spi.h as well.  The engine only compares
\* writearr[0] with them and forwards it, so they are kept symbolic.
JEDEC_WREN == "JEDEC_WREN"
JEDEC_WRSR == "JEDEC_WRSR"
JEDEC_CE_C7 == "JEDEC_CE_C7"
JEDEC_CE_60 == "JEDEC_CE_60"
JEDEC_BE_52 == "JEDEC_BE_52"
JEDEC_BE_D8 == "JEDEC_BE_D8"
JEDEC_BE_D7 == "JEDEC_BE_D7"
JEDEC_SE == "JEDEC_SE"
JEDEC_RDID == "JEDEC_RDID"
JEDEC_READ == "JEDEC_READ"

----------------------------------------------------------------------------
(* Bounds and input sets. *)

\* bytes the hardware may answer a register read with
ByteVals == {\H10, \H21}

\* writecnt and readcnt of a send_command call range over 0..MaxWritecnt and
\* 0..MaxReadcnt
MaxWritecnt == 5
MaxReadcnt == 4

\* opcodes (writearr[0]) of a send_command call: every case label of the
\* switch and two opcodes of its default branch
Opcodes ==
    { JEDEC_WREN, JEDEC_WRSR, JEDEC_CE_C7, JEDEC_CE_60, JEDEC_BE_52, JEDEC_BE_D8,
      JEDEC_BE_D7, JEDEC_SE, JEDEC_RDID, JEDEC_READ }

\* the bytes that follow the opcode in writearr
WriteData == { <<\H12, \H34, \H56, \H78, \H9A>> }

\* values of the block, page and byte arguments of a map_page call
PageBytes == {\H00, \H01, \HFF}

\* a bulk transfer spans at most MaxChunks pages
MaxChunks == 3

\* len of a bulk transfer: nothing, and for each number of pages up to
\* MaxChunks a last page of 1, 44 or 256 bytes
Lens == {0} \cup {256 * (q - 1) + r : q \in 1..MaxChunks, r \in {1, 44, 256}}

\* start of a bulk transfer: page aligned (the last one with bit 24 set and a
\* carry into the block index on its second page) or not
Starts == {\H000000, \H0100FF00, \H000010, \H0203FF}

\* what the host's default_spi_read / default_spi_write_256 may return
FallbackRets == {0, SPI_GENERIC_ERROR, -3}

\* multipliers and (offset, mask, target) triples wait_command_done is called with
WaitCalls ==
    { [offset |-> \H60, mask |-> \H01, target |-> 0, multiplier |-> 1],
      [offset |-> \H60, mask |-> \H01, target |-> 0, multiplier |-> 20],
      [offset |-> MCU_MODE, mask |-> \H10, target |-> \H10, multiplier |-> 1],
      [offset |-> MCU_MODE, mask |-> WRITE_XFER_STATUS_MASK, target |-> 0,
       multiplier |-> 1] }

----------------------------------------------------------------------------
(* C integer arithmetic. *)

RECURSIVE BitAnd(_, _)
BitAnd(a, b) ==
    IF a = 0 \/ b = 0 THEN 0
    ELSE (a % 2) * (b % 2) + 2 * BitAnd(a \div 2, b \div 2)

RECURSIVE BitOr(_, _)
BitOr(a, b) ==
    IF a = 0 THEN b
    ELSE IF b = 0 THEN a
    ELSE (IF a % 2 = 1 \/ b % 2 = 1 THEN 1 ELSE 0) + 2 * BitOr(a \div 2, b \div 2)

\* x | y on ints.  Sign extension commutes with |, so the 16-bit two's
\* complement image of the (small) status codes gives the 32-bit result.
IntOr(x, y) ==
    IF x = 0 THEN y
    ELSE IF y = 0 THEN x
    ELSE LET u == BitOr(x % 65536, y % 65536)
         IN  IF u >= 32768 THEN u - 65536 ELSE u

\* (uint8_t) conversion
U8(x) == x % 256

----------------------------------------------------------------------------
(* Log entries: one per register-level access. *)

\* write_register(reg, val); ok is whether the transfer succeeded
WriteEntry(reg, val, ok) == [k |-> "W", reg |-> reg, val |-> val, ok |-> ok, n |-> 0]
\* read_register(reg); val is the byte delivered (-1 when none was), n the
\* byte the register held at the time
ReadEntry(reg, val, ok, held) ==
    [k |-> "R", reg |-> reg, val |-> val, ok |-> ok, n |-> held]
\* a completed wait_command_done on reg that returned val
PollEntry(reg, val) == [k |-> "POLL", reg |-> reg, val |-> val, ok |-> (val = 0), n |-> 0]
\* write_page: n bytes of buf starting at offset val, prefixed with the data port
PageEntry(val, n, ok) == [k |-> "PAGE", reg |-> MCU_DATA_PORT, val |-> val, ok |-> ok, n |-> n]
\* read_data of n bytes into buf + val
DataEntry(val, n, ok) == [k |-> "DATA", reg |-> MCU_DATA_PORT, val |-> val, ok |-> ok, n |-> n]

----------------------------------------------------------------------------
(* Register access primitives (lines 84-97). *)

\* Outcome of the transport for one write_register.
realtek_mst_i2c_spi_write_register(ok) == IF ok THEN 0 ELSE SPI_GENERIC_ERROR

\* Outcomes of the transport for one read_register: the selector write and
\* the one-byte read may each fail; the byte v lands in *value iff the read
\* itself transferred it; held is the content of the register at the time,
\* which is the byte a read transfers.  When the read transfers nothing the
\* call fails and leaves *value alone whether or not the selector write went
\* through, so one outcome (sel FALSE, v 0) stands for both.
HeldOutcomes ==
    { [sel |-> x, rd |-> TRUE, v |-> b, held |-> b] : x \in BOOLEAN, b \in ByteVals }
      \cup [sel : {FALSE}, rd : {FALSE}, v : {0}, held : ByteVals \cup {0}]

\* The outcomes the polling and bulk operations are explored with: a read
\* that transfers nothing leaves no trace of the register's content.
ReadOutcomes == { o \in HeldOutcomes : o.held = o.v }

ReadOk(o) == o.sel /\ o.rd

\* ret and the new content of *value, given its old content
realtek_mst_i2c_spi_read_register(old, o) ==
    [ret |-> IF ReadOk(o) THEN 0 ELSE SPI_GENERIC_ERROR,
     val |-> IF o.rd THEN o.v ELSE old]

ReadLog(reg, o) == ReadEntry(reg, IF o.rd THEN o.v ELSE -1, ReadOk(o), o.held)

----------------------------------------------------------------------------
(* State after construction, and frames. *)

NoArg ==
    [writecnt |-> 0, readcnt |-> 0, opcode |-> "", data |-> <<>>, start |-> 0,
     len |-> 0, fallback |-> 0, block |-> 0, page |-> 0, byte |-> 0]

NoLocals == [ret |-> 0, i |-> 0, eret |-> 0]

\* val = -1: the uint8_t val of wait_command_done is not yet initialised
NoWait ==
    [offset |-> 0, mask |-> 0, target |-> 0, multiplier |-> 0,
     tried |-> 0, ret |-> 0, val |-> -1, reads |-> 0, status |-> 0, cont |-> ""]

\* The session as realtek_mst_i2c_spi_init leaves it when it returns 0
\* (lines 449-474): the handle is open and owned by the session struct, the
\* shutdown hook and the SPI master are registered.
Serving ==
    /\ fd = "open"
    /\ mst_data = "allocated"
    /\ hook = "registered"
    /\ master = TRUE

Init ==
    /\ op = "idle"
    /\ pc = "idle"
    /\ arg = NoArg
    /\ st = NoLocals
    /\ w = NoWait
    /\ log = <<>>
    /\ result = 0
    /\ Serving

\* The host takes the result and the engine is ready for the next call.
Return ==
    /\ pc = "done"
    /\ op' = "idle"
    /\ pc' = "idle"
    /\ arg' = NoArg
    /\ st' = NoLocals
    /\ w' = NoWait
    /\ log' = <<>>
    /\ result' = 0
    /\ UNCHANGED life

----------------------------------------------------------------------------
(* realtek_mst_i2c_spi_wait_command_done (lines 99-115). *)

\* the frame on entry: tried = 0, ret = 0, val uninitialised
WaitFrame(offset, mask, target, multiplier, cont) ==
    [offset |-> offset, mask |-> mask, target |-> target, multiplier |-> multiplier,
     tried |-> 0, ret |-> 0, val |-> -1, reads |-> 0, status |-> 0, cont |-> cont]

\* the loop bound of line 107
WaitBound(multiplier) == MAX_SPI_WAIT_RETRIES * multiplier

\* the comparison of line 109
WaitTimedOut(tried, multiplier) == tried = MAX_SPI_WAIT_RETRIES

\* lines 109-114, with val the byte the comparison of line 114 sees
WaitStatus(f, val) ==
    IF WaitTimedOut(f.tried, f.multiplier) THEN -MAX_SPI_WAIT_RETRIES
    ELSE IF BitAnd(val, f.mask) # f.target THEN SPI_GENERIC_ERROR
    ELSE f.ret

\* What is left of the frame once the function has returned: the status
\* handed to the caller, and (for the properties) the final ret and val.
Returned(f, s, val) == [NoWait EXCEPT !.status = s, !.ret = f.ret, !.val = val]

\* line 106: the frame after ret |= read_register(fd, offset, &val)
WaitAfterRead(f, o) ==
    LET r == realtek_mst_i2c_spi_read_register(f.val, o)
    IN  [f EXCEPT !.ret = IntOr(@, r.ret), !.val = r.val, !.reads = @ + 1]

\* line 107, up to ++tried: !ret && ((val & mask) != target)
WaitUnmet(f) == f.ret = 0 /\ BitAnd(f.val, f.mask) # f.target

\* One iteration of the do-while loop: the read of line 106 and the
\* condition of line 107, which short-circuits left to right (tried is
\* incremented only when the first two conjuncts hold).  When the condition
\* ends the loop, lines 109-114 run and the function returns to its caller.
\* A val that no read ever filled is indeterminate: line 114 may see any
\* byte u.
WaitRead ==
    /\ pc = "wait_loop"
    /\ \E o \in ReadOutcomes :
         \E g \in {WaitAfterRead(w, o)} :
           \E f \in {IF WaitUnmet(g) THEN [g EXCEPT !.tried = @ + 1] ELSE g} :
             IF WaitUnmet(g) /\ f.tried < WaitBound(f.multiplier)
             THEN /\ w' = f
                  /\ pc' = "wait_loop"
                  /\ UNCHANGED <<log, result>>
             ELSE \E u \in (IF f.val < 0 THEN ByteVals ELSE {f.val}) :
                    \E s \in {WaitStatus(f, u)} :
                      /\ w' = Returned(f, s, u)
                      /\ pc' = f.cont
                      /\ log' = Append(log, PollEntry(f.offset, s))
                      /\ result' = IF op = "wait_command_done" THEN s ELSE result
    /\ UNCHANGED <<op, arg, st>>
    /\ UNCHANGED life

\* A call of wait_command_done with the parameters of one of its call sites
\* (lines 134, 241, 301, 353).
WaitCall ==
    /\ pc = "idle"
    /\ \E c \in WaitCalls :
         w' = WaitFrame(c.offset, c.mask, c.target, c.multiplier, "done")
    /\ op' = "wait_command_done"
    /\ pc' = "wait_loop"
    /\ UNCHANGED <<arg, st, log, result>>
    /\ UNCHANGED life

NextWait == WaitCall \/ WaitRead \/ Return

SpecWait == Init /\ [][NextWait]_vars

----------------------------------------------------------------------------
(* realtek_mst_i2c_spi_send_command (lines 173-249). *)

\* ret after a run of accesses whose statuses are or-ed into it (ret |= ...)
RECURSIVE OrAll(_, _)
OrAll(ret, entries) ==
    IF entries = <<>> THEN ret
    ELSE OrAll(IntOr(ret, IF Head(entries).ok THEN 0 ELSE SPI_GENERIC_ERROR),
               Tail(entries))

\* line 182
CountsRejected(writecnt, readcnt) == writecnt > 4 \/ readcnt > 3 \/ writecnt = 0

\* mutant: the WREN case is missing and the opcode falls to the default branch
IgnoredOpcode_none(opcode) == FALSE

\* line 210: the opcode for which the function returns 0 at once
IgnoredOpcode(opcode) == opcode = JEDEC_WREN

\* lines 212-230: the bits the switch ors into ctrl_reg_val
OpcodeTag(opcode) ==
    CASE opcode = JEDEC_WRSR -> BitOr(1 * 32, 2 * 32)
      [] opcode \in {JEDEC_CE_C7, JEDEC_CE_60, JEDEC_BE_52, JEDEC_BE_D8,
                     JEDEC_BE_D7, JEDEC_SE} -> BitOr(1 * 32, 4 * 32)
      [] OTHER -> 2 * 32

\* mutant: the count is used without the decrement of line 191
ctrl_reg_val_undecremented(writecnt, readcnt, opcode) ==
    BitOr(U8(BitOr((writecnt + 1) * 8, readcnt * 2)), OpcodeTag(opcode))

\* lines 207-231: the uint8_t control word; writecnt is the decremented count
ctrl_reg_val(writecnt, readcnt, opcode) ==
    BitOr(U8(BitOr(writecnt * 8, readcnt * 2)), OpcodeTag(opcode))

\* lines 179, 217-218
max_timeout_mul(opcode) == IF opcode = JEDEC_CE_C7 THEN 1 * 20 ELSE 1

\* mutant: the trigger write is issued before the data bytes are staged
StagingWrites_triggerFirst(writecnt, readcnt, opcode, data, oks) ==
    LET cv == ctrl_reg_val(writecnt, readcnt, opcode)
    IN  <<WriteEntry(\H60, cv, oks[1]), WriteEntry(\H61, opcode, oks[2])>>
          \o <<WriteEntry(\H60, BitOr(cv, 1), oks[writecnt + 3])>>
          \o [i \in 1..writecnt |-> WriteEntry(U8(\H64 + (i - 1)), data[i], oks[i + 2])]

\* lines 232-237: the staging writes and the trigger write, all issued
\* whatever their outcomes oks; writecnt is the decremented count
StagingWrites(writecnt, readcnt, opcode, data, oks) ==
    LET cv == ctrl_reg_val(writecnt, readcnt, opcode)
    IN  <<WriteEntry(\H60, cv, oks[1]), WriteEntry(\H61, opcode, oks[2])>>
          \o [i \in 1..writecnt |-> WriteEntry(U8(\H64 + (i - 1)), data[i], oks[i + 2])]
          \o <<WriteEntry(\H60, BitOr(cv, 1), oks[writecnt + 3])>>

\* mutant: the response reads stop at the first one that fails
ResponseReads_stop(readcnt, outs) ==
    LET bad == {i \in 1..readcnt : ~ReadOk(outs[i])}
        last == IF bad = {} THEN readcnt ELSE CHOOSE i \in bad : \A j \in bad : i <= j
    IN  [i \in 1..last |-> ReadLog(U8(\H67 + (i - 1)), outs[i])]

\* lines 245-246: the response reads
ResponseReads(readcnt, outs) ==
    [i \in 1..readcnt |-> ReadLog(U8(\H67 + (i - 1)), outs[i])]

\* The call up to the return of line 183, 210 or 239, or to the call of
\* wait_command_done in line 241.  The host calls it through the registered
\* master, whose data is the session struct holding the open descriptor, so
\* line 187 never returns.
SendCommand ==
    /\ pc = "idle"
    /\ Serving
    /\ \E writecnt \in 0..MaxWritecnt, readcnt \in 0..MaxReadcnt,
          opcode \in Opcodes, data \in WriteData :
         LET skip == CountsRejected(writecnt, readcnt) \/ IgnoredOpcode(opcode)
         IN  \E oks \in [1..(IF skip THEN 0 ELSE writecnt + 2) -> BOOLEAN] :
               LET stage == StagingWrites(writecnt - 1, readcnt, opcode, data, oks)
                   ret == OrAll(0, stage)
               IN  /\ arg' = [NoArg EXCEPT !.writecnt = writecnt, !.readcnt = readcnt,
                                           !.opcode = opcode, !.data = data]
                   /\ IF CountsRejected(writecnt, readcnt)
                      THEN /\ pc' = "done"
                           /\ result' = SPI_GENERIC_ERROR
                           /\ UNCHANGED <<log, w>>
                      ELSE IF IgnoredOpcode(opcode)
                      THEN /\ pc' = "done"
                           /\ result' = 0
                           /\ UNCHANGED <<log, w>>
                      ELSE IF ret # 0
                      THEN /\ pc' = "done"
                           /\ result' = ret
                           /\ log' = stage
                           /\ UNCHANGED w
                      ELSE /\ pc' = "wait_loop"
                           /\ w' = WaitFrame(\H60, \H01, 0, max_timeout_mul(opcode),
                                             "send_command_polled")
                           /\ log' = stage
                           /\ UNCHANGED result
    /\ op' = "send_command"
    /\ UNCHANGED st
    /\ UNCHANGED life

\* Lines 241-248: the status of the wait, then the response reads.
SendCommandPolled ==
    /\ pc = "send_command_polled"
    /\ \E outs \in [1..(IF w.status # 0 THEN 0 ELSE arg.readcnt) -> ReadOutcomes] :
         LET reads == ResponseReads(arg.readcnt, outs)
         IN  IF w.status # 0
             THEN /\ result' = w.status
                  /\ UNCHANGED log
             ELSE /\ result' = OrAll(w.status, reads)
                  /\ log' = log \o reads
    /\ pc' = "done"
    /\ w' = NoWait
    /\ UNCHANGED <<op, arg, st>>
    /\ UNCHANGED life

NextCmd == SendCommand \/ SendCommandPolled \/ WaitRead \/ Return

SpecCmd == Init /\ [][NextCmd]_vars

----------------------------------------------------------------------------
(* Mode/protection controller and page window (lines 117-171, 251-259). *)

\* mutant: the writes stop at the first one that fails
EnterIspModeWrites_stop(oks) ==
    LET all == << WriteEntry(MCU_MODE, ENTER_ISP_MODE, oks[1]),
                  WriteEntry(\HF4, \H9F, oks[2]),
                  WriteEntry(\HF5, \H06, oks[3]),
                  WriteEntry(\HF4, \HA0, oks[4]),
                  WriteEntry(\HF5, \H74, oks[5]) >>
        bad == {i \in 1..5 : ~oks[i]}
    IN  IF bad = {} THEN all
        ELSE SubSeq(all, 1, CHOOSE i \in bad : \A j \in bad : i <= j)

\* lines 119-126: the five writes, all issued whatever their outcomes oks
EnterIspModeWrites(oks) ==
    << WriteEntry(MCU_MODE, ENTER_ISP_MODE, oks[1]),
       WriteEntry(\HF4, \H9F, oks[2]),
       WriteEntry(\HF5, \H06, oks[3]),
       WriteEntry(\HF4, \HA0, oks[4]),
       WriteEntry(\HF5, \H74, oks[5]) >>

\* lines 140-144: val = 0, the read of 0xEE, the write of (val & 0xFD) | 0x02
ResetMpuAccesses(o, ok) ==
    LET val == realtek_mst_i2c_spi_read_register(0, o).val
    IN  << ReadLog(\HEE, o),
           WriteEntry(\HEE, BitOr(BitAnd(val, \HFD), \H02), ok) >>

\* mutant: the function gives up when the read of the protection bits fails
DisableProtectionAccesses_bail(oks, o1, o2) ==
    IF ReadOk(o1)
    THEN << WriteEntry(\HF4, \H9F, oks[1]), WriteEntry(\HF5, \H10, oks[2]),
            WriteEntry(\HF4, \HAB, oks[3]), ReadLog(\HF5, o1),
            WriteEntry(\HF4, \H9F, oks[4]), WriteEntry(\HF5, \H10, oks[5]),
            WriteEntry(\HF4, \HAB, oks[6]),
            WriteEntry(\HF5, BitOr(BitAnd(o1.v, \HF8), \H01), oks[7]),
            ReadLog(\HD7, o2),
            WriteEntry(\HD7, BitOr(BitAnd(IF o2.rd THEN o2.v ELSE o1.v, \HFE), \H01),
                       oks[8]) >>
    ELSE << WriteEntry(\HF4, \H9F, oks[1]), WriteEntry(\HF5, \H10, oks[2]),
            WriteEntry(\HF4, \HAB, oks[3]), ReadLog(\HF5, o1) >>

\* lines 150-168: val = 0 and the ten accesses; the one val receives both
\* reads, and keeps its content when a read transfers nothing
DisableProtectionAccesses(oks, o1, o2) ==
    LET val1 == realtek_mst_i2c_spi_read_register(0, o1).val
        val2 == realtek_mst_i2c_spi_read_register(val1, o2).val
    IN  << WriteEntry(\HF4, \H9F, oks[1]),
           WriteEntry(\HF5, \H10, oks[2]),
           WriteEntry(\HF4, \HAB, oks[3]),
           ReadLog(\HF5, o1),
           WriteEntry(\HF4, \H9F, oks[4]),
           WriteEntry(\HF5, \H10, oks[5]),
           WriteEntry(\HF4, \HAB, oks[6]),
           WriteEntry(\HF5, BitOr(BitAnd(val1, \HF8), \H01), oks[7]),
           ReadLog(\HD7, o2),
           WriteEntry(\HD7, BitOr(BitAnd(val2, \HFE), \H01), oks[8]) >>

\* mutant: the writes stop at the first one that fails
MapPageWrites_stop(block_idx, page_idx, byte_idx, oks) ==
    IF ~oks[1] THEN <<WriteEntry(MAP_PAGE_BYTE2, block_idx, oks[1])>>
    ELSE IF ~oks[2]
    THEN << WriteEntry(MAP_PAGE_BYTE2, block_idx, oks[1]),
            WriteEntry(MAP_PAGE_BYTE1, page_idx, oks[2]) >>
    ELSE << WriteEntry(MAP_PAGE_BYTE2, block_idx, oks[1]),
            WriteEntry(MAP_PAGE_BYTE1, page_idx, oks[2]),
            WriteEntry(MAP_PAGE_BYTE0, byte_idx, oks[3]) >>

\* lines 254-256: the three writes, all issued whatever their outcomes oks
MapPageWrites(block_idx, page_idx, byte_idx, oks) ==
    << WriteEntry(MAP_PAGE_BYTE2, block_idx, oks[1]),
       WriteEntry(MAP_PAGE_BYTE1, page_idx, oks[2]),
       WriteEntry(MAP_PAGE_BYTE0, byte_idx, oks[3]) >>

\* line 258
realtek_mst_i2c_spi_map_page(writes) ==
    IF OrAll(0, writes) # 0 THEN SPI_GENERIC_ERROR ELSE 0

\* A call of a function that runs straight through its accesses.
Straight(name, a, accesses, ret) ==
    /\ pc = "idle"
    /\ op' = name
    /\ pc' = "done"
    /\ arg' = a
    /\ log' = accesses
    /\ result' = ret
    /\ UNCHANGED <<st, w>>
    /\ UNCHANGED life

EnterIspMode ==
    \E oks \in [1..5 -> BOOLEAN] :
      \E acc \in {EnterIspModeWrites(oks)} :
        Straight("enter_isp_mode", NoArg, acc, OrAll(0, acc))

ResetMpu ==
    \E o \in HeldOutcomes, ok \in BOOLEAN :
      \E acc \in {ResetMpuAccesses(o, ok)} :
        Straight("reset_mpu", NoArg, acc, OrAll(0, acc))

DisableProtection ==
    \E oks \in [1..8 -> BOOLEAN], o1 \in HeldOutcomes, o2 \in HeldOutcomes :
      \E acc \in {DisableProtectionAccesses(oks, o1, o2)} :
        Straight("disable_protection", NoArg, acc, OrAll(0, acc))

MapPage ==
    \E block_idx \in PageBytes, page_idx \in PageBytes, byte_idx \in PageBytes,
       oks \in [1..3 -> BOOLEAN] :
      \E acc \in {MapPageWrites(block_idx, page_idx, byte_idx, oks)} :
        Straight("map_page",
                 [NoArg EXCEPT !.block = block_idx, !.page = page_idx,
                               !.byte = byte_idx],
                 acc, realtek_mst_i2c_spi_map_page(acc))

NextCtl == EnterIspMode \/ ResetMpu \/ DisableProtection \/ MapPage \/ Return

SpecCtl == Init /\ [][NextCtl]_vars

----------------------------------------------------------------------------
(* Paged bulk read and write (lines 261-370). *)

Min(a, b) == IF a < b THEN a ELSE b

\* mutant: the test looks at the low four bits only
Unaligned_nibble(start) == BitAnd(start, \H0F) # 0

\* lines 282, 328: start & 0xff
Unaligned(start) == BitAnd(start, \HFF) # 0

\* (uint8_t)(x >> 16), (uint8_t)(x >> 8), (uint8_t)x of an unsigned int x.
\* Only bits 0..23 of x take part, so x may be given modulo any multiple of
\* 2^24 (unsigned arithmetic is modulo 2^32).
Byte2(x) == U8((x % 16777216) \div 65536)
Byte1(x) == U8((x % 16777216) \div 256)
Byte0(x) == U8(x % 16777216)

\* mutant: the page window is programmed with start itself
ReadSetupWrites_undecremented(start, oks) ==
    LET map == MapPageWrites(Byte2(start), Byte1(start), Byte0(start),
                             [j \in 1..3 |-> oks[j + 2]])
    IN  << WriteEntry(\H60, \H46, oks[1]), WriteEntry(\H61, OPCODE_READ, oks[2]) >>
          \o map
          \o << WriteEntry(\H6A, \H03, oks[6]), WriteEntry(\H60, \H47, oks[7]) >>

\* lines 289-297: start--, then the writes that set up and trigger the read
ReadSetupWrites(start, oks) ==
    LET s == start - 1
        map == MapPageWrites(Byte2(s), Byte1(s), Byte0(s),
                             [j \in 1..3 |-> oks[j + 2]])
    IN  << WriteEntry(\H60, \H46, oks[1]), WriteEntry(\H61, OPCODE_READ, oks[2]) >>
          \o map
          \o << WriteEntry(\H6A, \H03, oks[6]), WriteEntry(\H60, \H47, oks[7]) >>

\* lines 312-317 from offset i on: a read_data per chunk, up to the first
\* one that fails
RECURSIVE ChunkReads(_, _, _)
ChunkReads(i, len, oks) ==
    IF ~(i < len) THEN <<>>
    ELSE LET e == DataEntry(i, Min(len - i, PAGE_SIZE), oks[i \div PAGE_SIZE + 1])
         IN  IF e.ok THEN <<e>> \o ChunkReads(i + PAGE_SIZE, len, oks) ELSE <<e>>

\* number of iterations of for (i = 0; i < len; i += PAGE_SIZE)
Chunks(len) == (len + PAGE_SIZE - 1) \div PAGE_SIZE

\* realtek_mst_i2c_spi_read up to the return of line 283 or 299, or to the
\* call of wait_command_done in line 301.  fallback is what the host's
\* default_spi_read returns when line 283 calls it.
Read ==
    /\ pc = "idle"
    /\ Serving
    /\ \E start \in Starts, len \in Lens :
         \E oks \in [1..(IF Unaligned(start) THEN 0 ELSE 7) -> BOOLEAN] :
           \E acc \in {IF Unaligned(start) THEN <<>> ELSE ReadSetupWrites(start, oks)} :
             \E ret \in {OrAll(0, acc)} :
               /\ log' = acc
               /\ IF Unaligned(start)
                  THEN \E fallback \in FallbackRets :
                         /\ arg' = [NoArg EXCEPT !.start = start, !.len = len,
                                                 !.fallback = fallback]
                         /\ pc' = "done"
                         /\ result' = fallback
                         /\ UNCHANGED w
                  ELSE IF ret # 0
                  THEN /\ arg' = [NoArg EXCEPT !.start = start, !.len = len]
                       /\ pc' = "done"
                       /\ result' = ret
                       /\ UNCHANGED w
                  ELSE /\ arg' = [NoArg EXCEPT !.start = start, !.len = len]
                       /\ pc' = "wait_loop"
                       /\ w' = WaitFrame(\H60, \H01, 0, 1, "read_polled")
                       /\ UNCHANGED result
    /\ op' = "read"
    /\ UNCHANGED st
    /\ UNCHANGED life

\* Lines 301-319: the status of the wait, the dummy read (its status is
\* dropped), the chunk reads.
ReadPolled ==
    /\ pc = "read_polled"
    /\ IF w.status # 0
       THEN /\ result' = w.status
            /\ UNCHANGED log
       ELSE \E o \in ReadOutcomes, oks \in [1..Chunks(arg.len) -> BOOLEAN] :
              \E acc \in {ChunkReads(0, arg.len, oks)} :
                /\ log' = log \o <<ReadLog(MCU_DATA_PORT, o)>> \o acc
                /\ result' = OrAll(w.status, acc)
    /\ pc' = "done"
    /\ w' = NoWait
    /\ UNCHANGED <<op, arg, st>>
    /\ UNCHANGED life

\* mutant: the page-size register is reprogrammed for a full last page too
ShortChunk_orEqual(len, i) == len - i <= PAGE_SIZE

\* line 344
ShortChunk(len, i) == len - i < PAGE_SIZE

\* lines 343-348: the writes that open the chunk at offset i
ChunkSetupWrites(start, len, i, oks) ==
    LET page_len == Min(len - i, PAGE_SIZE)
        map == MapPageWrites(Byte2(start + i), Byte1(start + i), 0,
                             [j \in 1..3 |-> oks[j + 1]])
    IN  (IF ShortChunk(len, i) THEN <<WriteEntry(\H71, U8(page_len - 1), oks[1])>>
         ELSE <<>>) \o map

\* mutant: a failing step does not end the loop
LoopBreaks_never(ret) == FALSE

\* lines 349, 355, 359, 362: if (ret) break;
LoopBreaks(ret) == ret # 0

\* realtek_mst_i2c_spi_write_256 up to the return of line 329 or 337, or to
\* the loop of line 342.  fallback is what the host's default_spi_write_256
\* returns when line 329 calls it.
Write256 ==
    /\ pc = "idle"
    /\ Serving
    /\ \E start \in Starts, len \in Lens :
         IF Unaligned(start)
         THEN \E fallback \in FallbackRets :
                /\ arg' = [NoArg EXCEPT !.start = start, !.len = len,
                                        !.fallback = fallback]
                /\ pc' = "done"
                /\ result' = fallback
                /\ UNCHANGED <<log, st>>
         ELSE /\ arg' = [NoArg EXCEPT !.start = start, !.len = len]
              /\ \E oks \in [1..8 -> BOOLEAN], o1 \in ReadOutcomes, o2 \in ReadOutcomes :
                   \E dp \in {DisableProtectionAccesses(oks, o1, o2)} :
                     \E ret \in {OrAll(0, dp)} :
                       IF ret # 0
                       THEN /\ pc' = "done"
                            /\ result' = ret
                            /\ log' = dp
                            /\ UNCHANGED st
                       ELSE \E ok1 \in BOOLEAN, ok2 \in BOOLEAN :
                              \E acc \in {<< WriteEntry(\H6D, \H02, ok1),
                                             WriteEntry(\H71, PAGE_SIZE - 1, ok2) >>} :
                                /\ pc' = "write_loop"
                                /\ log' = dp \o acc
                                /\ st' = [NoLocals EXCEPT !.ret = OrAll(ret, acc)]
                                /\ UNCHANGED result
    /\ op' = "write_256"
    /\ UNCHANGED w
    /\ UNCHANGED life

\* Lines 342-353: the loop test, the chunk's page size and page window, the
\* call of wait_command_done for the empty buffer.
WriteLoop ==
    /\ pc = "write_loop"
    /\ IF ~(st.i < arg.len)
       THEN /\ pc' = "done"
            /\ result' = st.ret
            /\ UNCHANGED <<log, st, w>>
       ELSE \E oks \in [1..4 -> BOOLEAN] :
              \E acc \in {ChunkSetupWrites(arg.start, arg.len, st.i, oks)} :
                \E ret \in {OrAll(st.ret, acc)} :
                  /\ log' = log \o acc
                  /\ st' = [st EXCEPT !.ret = ret]
                  /\ IF LoopBreaks(ret)
                     THEN /\ pc' = "done"
                          /\ result' = ret
                          /\ UNCHANGED w
                     ELSE /\ pc' = "wait_loop"
                          /\ w' = WaitFrame(MCU_MODE, \H10, \H10, 1, "write_buffer_empty")
                          /\ UNCHANGED result
    /\ UNCHANGED <<op, arg>>
    /\ UNCHANGED life

\* Lines 353-361 and 133-134: the status of the wait, write_page, then
\* execute_write up to its call of wait_command_done.
WriteBufferEmpty ==
    /\ pc = "write_buffer_empty"
    /\ \E ret \in {IntOr(st.ret, w.status)} :
         IF LoopBreaks(ret)
         THEN /\ pc' = "done"
              /\ result' = ret
              /\ st' = [st EXCEPT !.ret = ret]
              /\ w' = NoWait
              /\ UNCHANGED log
         ELSE \E ok \in BOOLEAN :
                \E page \in {PageEntry(st.i, Min(arg.len - st.i, PAGE_SIZE), ok)} :
                  \E ret2 \in {OrAll(ret, <<page>>)} :
                    IF LoopBreaks(ret2)
                    THEN /\ pc' = "done"
                         /\ result' = ret2
                         /\ st' = [st EXCEPT !.ret = ret2]
                         /\ w' = NoWait
                         /\ log' = Append(log, page)
                    ELSE \E ok2 \in BOOLEAN :
                         /\ pc' = "wait_loop"
                         /\ log' = log \o <<page, WriteEntry(MCU_MODE, START_WRITE_XFER, ok2)>>
                         /\ st' = [st EXCEPT !.ret = ret2,
                                             !.eret = realtek_mst_i2c_spi_write_register(ok2)]
                         /\ w' = WaitFrame(MCU_MODE, WRITE_XFER_STATUS_MASK, 0, 1,
                                           "write_executed")
                         /\ UNCHANGED result
    /\ UNCHANGED <<op, arg>>
    /\ UNCHANGED life

\* Lines 134-135 and 361-364: execute_write returns, the chunk is done.
WriteExecuted ==
    /\ pc = "write_executed"
    /\ \E ret \in {IntOr(st.ret, IntOr(st.eret, w.status))} :
         IF LoopBreaks(ret)
         THEN /\ pc' = "done"
              /\ result' = ret
              /\ st' = [st EXCEPT !.ret = ret, !.eret = 0]
         ELSE /\ pc' = "write_loop"
              /\ st' = [st EXCEPT !.ret = ret, !.i = @ + PAGE_SIZE, !.eret = 0]
              /\ UNCHANGED result
    /\ w' = NoWait
    /\ UNCHANGED <<op, arg, log>>
    /\ UNCHANGED life

NextBulk ==
    \/ Read \/ ReadPolled
    \/ Write256 \/ WriteLoop \/ WriteBufferEmpty \/ WriteExecuted
    \/ WaitRead \/ Return

SpecBulk == Init /\ [][NextBulk]_vars

----------------------------------------------------------------------------
(* Session lifecycle (lines 372-377, 389-475). *)

\* i2c_close(fd), line 396
CloseEntry == [k |-> "CLOSE", reg |-> 0, val |-> 0, ok |-> TRUE, n |-> 0]

\* What extract_programmer_param("bus") and strtol make of the programmer
\* parameter: whether it was given, whether strtol converted something
\* without error, the number it found and the length of what follows it.
BusParams ==
    { [given |-> FALSE, converted |-> FALSE, bus |-> 0, suffix |-> 0],
      [given |-> TRUE, converted |-> FALSE, bus |-> 0, suffix |-> 1],
      [given |-> TRUE, converted |-> TRUE, bus |-> -1, suffix |-> 0],
      [given |-> TRUE, converted |-> TRUE, bus |-> 256, suffix |-> 0],
      [given |-> TRUE, converted |-> TRUE, bus |-> 3, suffix |-> 2],
      [given |-> TRUE, converted |-> TRUE, bus |-> 0, suffix |-> 0],
      [given |-> TRUE, converted |-> TRUE, bus |-> 255, suffix |-> 0] }

\* what i2c_open returns: a descriptor, or a negative error
OpenResults == {3, -1}

\* what register_shutdown and register_spi_master return
RegisterRets == {0, 1}

\* lines 402-439: ret, and *i2c_bus (left at its initial 0 on failure)
get_params(p) ==
    IF ~p.given THEN [ret |-> SPI_GENERIC_ERROR, bus |-> 0]
    ELSE IF ~p.converted THEN [ret |-> SPI_GENERIC_ERROR, bus |-> 0]
    ELSE IF p.bus < 0 \/ p.bus > 255 THEN [ret |-> SPI_GENERIC_ERROR, bus |-> 0]
    ELSE IF p.suffix > 0 THEN [ret |-> SPI_GENERIC_ERROR, bus |-> 0]
    ELSE [ret |-> 0, bus |-> p.bus]

\* A return of realtek_mst_i2c_spi_init that leaves the session as it is but
\* for the handle.
InitReturns(ret, accesses, handle) ==
    /\ result' = ret
    /\ log' = accesses
    /\ fd' = handle
    /\ UNCHANGED <<mst_data, hook, master>>

\* realtek_mst_i2c_spi_init (lines 441-475), called once by the host before
\* anything else.
SpiInit ==
    /\ pc = "idle"
    /\ fd = "none" /\ mst_data = "none" /\ hook = "none" /\ ~master
    /\ \E p \in BusParams :
         IF get_params(p).ret # 0
         THEN InitReturns(SPI_GENERIC_ERROR, <<>>, fd)
         ELSE \E opened \in OpenResults :
           IF opened < 0
           THEN InitReturns(opened, <<>>, fd)
           ELSE \E o \in ReadOutcomes, ok \in BOOLEAN :
             \E reset \in {ResetMpuAccesses(o, ok)} :
               \E ret \in {OrAll(0, reset)} :
                 IF ret # 0
                 THEN InitReturns(ret, reset, "open")
                 ELSE \E oks \in [1..5 -> BOOLEAN] :
                   \E isp \in {EnterIspModeWrites(oks)} :
                     \E ret2 \in {OrAll(ret, isp)} :
                       IF ret2 # 0
                       THEN InitReturns(ret2, reset \o isp, "open")
                       ELSE \E calloc \in BOOLEAN :
                         IF ~calloc
                         THEN InitReturns(SPI_GENERIC_ERROR, reset \o isp, "open")
                         ELSE \E rs \in RegisterRets, rm \in RegisterRets :
                           /\ result' = IntOr(IntOr(ret2, rs), rm)
                           /\ log' = reset \o isp
                           /\ fd' = "open"
                           /\ mst_data' = "allocated"
                           /\ hook' = IF rs = 0 THEN "registered" ELSE "none"
                           /\ master' = (rm = 0)
    /\ op' = "init"
    /\ pc' = "done"
    /\ UNCHANGED <<arg, st, w>>

\* mutant: the handle is closed before the MCU is reset
ShutdownSteps_closeFirst(o, ok) == <<CloseEntry>> \o ResetMpuAccesses(o, ok)

\* lines 395-396: reset_mpu(fd), then i2c_close(fd)
ShutdownSteps(o, ok) == ResetMpuAccesses(o, ok) \o <<CloseEntry>>

\* the status of the register accesses among the steps
ShutdownRet(steps) == OrAll(0, SelectSeq(steps, LAMBDA e : e.k # "CLOSE"))

\* realtek_mst_i2c_spi_shutdown (lines 389-400), which the host runs once,
\* as the hook registered in line 469 with the session struct.
Shutdown ==
    /\ pc = "idle"
    /\ hook = "registered"
    /\ \E o \in ReadOutcomes, ok \in BOOLEAN :
         \E steps \in {ShutdownSteps(o, ok)} :
           /\ log' = steps
           /\ result' = ShutdownRet(steps)
           /\ fd' = IF \E j \in 1..Len(steps) : steps[j] = CloseEntry
                    THEN "closed" ELSE fd
    /\ mst_data' = "freed"
    /\ hook' = "run"
    /\ op' = "shutdown"
    /\ pc' = "done"
    /\ UNCHANGED <<arg, st, w, master>>

\* realtek_mst_i2c_spi_write_aai (lines 372-377)
WriteAai ==
    /\ pc = "idle"
    /\ Serving
    /\ op' = "write_aai"
    /\ pc' = "done"
    /\ result' = SPI_GENERIC_ERROR
    /\ UNCHANGED <<arg, st, w, log>>
    /\ UNCHANGED life

\* the state before the host calls realtek_mst_i2c_spi_init
InitLife ==
    /\ op = "idle"
    /\ pc = "idle"
    /\ arg = NoArg
    /\ st = NoLocals
    /\ w = NoWait
    /\ log = <<>>
    /\ result = 0
    /\ fd = "none"
    /\ mst_data = "none"
    /\ hook = "none"
    /\ master = FALSE

\* A session from initialisation to shutdown; the operations in between are
\* the commands of send_command and write_aai.
NextLife ==
    \/ SpiInit
    \/ SendCommand \/ SendCommandPolled \/ WaitRead
    \/ WriteAai
    \/ Shutdown
    \/ Return

SpecLife == InitLife /\ [][NextLife]_vars

----------------------------------------------------------------------------
(* Claims about wait_command_done, checked under SpecWait. *)

\* this step is the last iteration of a standalone wait_command_done
WaitReturns == op = "wait_command_done" /\ pc = "wait_loop" /\ pc' # "wait_loop"

\* ... every read of which succeeded
WaitAllReadsOk == WaitReturns /\ w'.ret = 0

\* ... and the last byte read (hence every byte read: the loop stops at the
\* first match) does not satisfy (value & mask) == target
WaitNeverMatched == WaitAllReadsOk /\ BitAnd(w'.val, w.mask) # w.target

\* ... and the last byte read is the first to satisfy the condition
WaitMatched == WaitAllReadsOk /\ BitAnd(w'.val, w.mask) = w.target

\* the number of reads the call has made when this step is over
ReadsMade == w.reads + 1

\* C1: for every multiplier, when every read succeeds and none satisfies the
\* condition, wait_command_done returns after exactly 1000 * multiplier reads,
\* and what it returns is the timeout error -MAX_SPI_WAIT_RETRIES.
C1_TimeoutAfterBudget ==
    [][WaitNeverMatched =>
          /\ ReadsMade = 1000 * w.multiplier
          /\ w'.status = -MAX_SPI_WAIT_RETRIES]_vars

\* C2: when every read succeeds and the condition first holds on the k-th
\* read, 1 <= k <= 1000 * multiplier, wait_command_done returns success.
C2_SuccessOnMatch ==
    [][WaitMatched /\ 1 <= ReadsMade /\ ReadsMade <= 1000 * w.multiplier
          => w'.status = 0]_vars

\* C13: a register read that fails during the polling of wait_command_done
\* is the last read of the call, and the call then returns the generic (I/O)
\* error, not the timeout error, for every multiplier and every position of
\* the failing read within the budget.
C13_IoFailureAborts ==
    [][(op = "wait_command_done" /\ pc = "wait_loop") =>
          /\ w.ret = 0
          /\ (pc' # "wait_loop" /\ w'.ret # 0) => w'.status = SPI_GENERIC_ERROR]_vars

----------------------------------------------------------------------------
(* Claims about send_command, checked under SpecCmd. *)

\* every access of the call so far succeeded
AllOk == \A j \in 1..Len(log) : log[j].ok

InSendCommand == op = "send_command"
SendCommandDone == op = "send_command" /\ pc = "done"

\* counts the input contract admits
ValidCounts == arg.writecnt \in 1..4 /\ arg.readcnt \in 0..3

\* a call that gets past the argument check and the write-enable case
Forwarded == InSendCommand /\ ValidCounts /\ arg.opcode # JEDEC_WREN

\* position of the trigger write in the log of a forwarded call: after the
\* control word, the opcode and the writecnt - 1 data bytes
TriggerAt == arg.writecnt + 2

\* some write before the trigger write failed
StagingFailed == \E j \in 1..(TriggerAt - 1) : ~log[j].ok

\* the trigger write is in the log
Triggered ==
    \E j \in 1..Len(log) : log[j].k = "W" /\ log[j].reg = \H60 /\ log[j].val % 2 = 1

\* a completion poll or a response read is in the log
PolledOrRead == \E j \in 1..Len(log) : log[j].k \in {"POLL", "R"}

\* C3: if a staging write of send_command fails (control word, opcode or a
\* data byte), the trigger write 0x60 = ctrl_reg_val | 1 is never issued and
\* no completion poll or response read occurs.
C3_NoTriggerAfterStagingFailure ==
    (Forwarded /\ StagingFailed) => (~Triggered /\ ~PolledOrRead)

\* the opcode-category tag of bits 5-7
TagOf(opcode) ==
    IF opcode = JEDEC_WRSR THEN 3
    ELSE IF opcode \in {JEDEC_CE_C7, JEDEC_CE_60, JEDEC_BE_52, JEDEC_BE_D8,
                        JEDEC_BE_D7, JEDEC_SE} THEN 5
    ELSE 2

\* C4: for valid counts and an opcode other than write-enable, the control
\* word written to 0x60 carries writecnt - 1 in bits 3-4, readcnt in bits 1-2,
\* the category tag alone in bits 5-7, bit 0 clear on the first write and set
\* on the trigger write; a call with writecnt = 0, writecnt > 4 or readcnt > 3
\* returns SPI_GENERIC_ERROR with no register traffic.
C4_ControlWord ==
    /\ Forwarded =>
         /\ Len(log) >= TriggerAt
         /\ log[1].k = "W" /\ log[1].reg = \H60
         /\ log[1].val % 2 = 0
         /\ (log[1].val \div 2) % 4 = arg.readcnt
         /\ (log[1].val \div 8) % 4 = arg.writecnt - 1
         /\ log[1].val \div 32 = TagOf(arg.opcode)
         /\ log[TriggerAt].k = "W" /\ log[TriggerAt].reg = \H60
         /\ log[TriggerAt].val = log[1].val + 1
    /\ (SendCommandDone /\ ~ValidCounts) =>
         (result = SPI_GENERIC_ERROR /\ log = <<>>)

\* a WRSR with four bytes out and three back ran to the end; an undersized
\* and an oversized call were rejected
C4_Witness ==
    /\ SendCommandDone /\ arg.opcode = JEDEC_WRSR
    /\ arg.writecnt = 4 /\ arg.readcnt = 3
    /\ result = 0 /\ Len(log) = 10 /\ log[1].val = \H7E /\ log[6].val = \H7F

\* the retry budget C5 states for an opcode
ClaimedBudget(opcode) ==
    IF opcode \in {JEDEC_CE_60, JEDEC_CE_C7} THEN 20 * 1000 ELSE 1000

\* C5: the completion poll of send_command has a budget of exactly 20 * 1000
\* reads for a chip-erase opcode (JEDEC_CE_60, JEDEC_CE_C7) and of exactly 1000
\* reads for every other opcode: it never reads more often, and it gives up on
\* reads that succeed without the busy bit clearing only when the budget is
\* spent.
C5_ChipEraseBudget ==
    [][(InSendCommand /\ pc = "wait_loop") =>
          /\ w.reads + 1 <= ClaimedBudget(arg.opcode)
          /\ (pc' # "wait_loop" /\ w'.ret = 0 /\ BitAnd(w'.val, w.mask) # w.target)
                => w.reads + 1 = ClaimedBudget(arg.opcode)]_vars

\* C6: send_command with the write-enable opcode and valid counts returns
\* success and issues no register access.
C6_WriteEnableIgnored ==
    (SendCommandDone /\ arg.opcode = JEDEC_WREN /\ ValidCounts)
        => (result = 0 /\ log = <<>>)

C6_Witness ==
    SendCommandDone /\ arg.opcode = JEDEC_WREN /\ arg.writecnt = 1 /\ arg.readcnt = 0

\* the control word C12 states: writecnt - 1 in bits 3-4, readcnt in bits
\* 1-2, the category tag in bits 5-7
ControlWord == (arg.writecnt - 1) * 8 + arg.readcnt * 2 + TagOf(arg.opcode) * 32

\* the writes C12 states, followed by the completed poll of 0x60
ExpectedStaging ==
    << WriteEntry(\H60, ControlWord, TRUE), WriteEntry(\H61, arg.opcode, TRUE) >>
      \o [i \in 1..(arg.writecnt - 1) |-> WriteEntry(\H63 + i, arg.data[i], TRUE)]
      \o << WriteEntry(\H60, ControlWord + 1, TRUE), PollEntry(\H60, 0) >>

TriggerOk == Len(log) >= TriggerAt /\ \A j \in 1..TriggerAt : log[j].ok

\* the response reads in the log
ResponseReadsAt == {j \in 1..Len(log) : log[j].k = "R"}

\* C14 as stated: once the trigger write was issued successfully,
\* send_command reads back all readcnt response bytes and returns the OR of
\* every failure observed, also when the completion poll times out or fails.
C14_ReadBackAfterTrigger ==
    (SendCommandDone /\ Forwarded /\ TriggerOk) =>
        /\ Cardinality(ResponseReadsAt) = arg.readcnt
        /\ (result = 0) <=> AllOk

\* C14 as amended: when a staging write or the trigger write failed,
\* send_command returns a failure with no poll and no response read; when
\* the completion poll times out or fails, it returns the poll's status at
\* once with no response read; once the poll has succeeded, it reads all
\* readcnt response bytes from 0x67.. whichever of these reads fail, and
\* returns success iff all of them succeeded.
C14_ReadBackAfterPoll ==
    (SendCommandDone /\ Forwarded) =>
        IF \E j \in 1..TriggerAt : ~log[j].ok
        THEN Len(log) = TriggerAt /\ result # 0
        ELSE /\ Len(log) > TriggerAt
             /\ log[TriggerAt + 1].k = "POLL"
             /\ IF ~log[TriggerAt + 1].ok
                THEN /\ Len(log) = TriggerAt + 1
                     /\ result = log[TriggerAt + 1].val /\ result # 0
                ELSE /\ Len(log) = TriggerAt + 1 + arg.readcnt
                     /\ \A i \in 1..arg.readcnt :
                          LET e == log[TriggerAt + 1 + i]
                          IN  e.k = "R" /\ e.reg = \H66 + i
                     /\ result = (IF AllOk THEN 0 ELSE SPI_GENERIC_ERROR)

\* the first of three response reads failed and the other two were made
C14_Witness ==
    /\ SendCommandDone /\ Forwarded /\ arg.writecnt = 2 /\ arg.readcnt = 3
    /\ Len(log) = 8 /\ log[5] = PollEntry(\H60, 0)
    /\ ~log[6].ok /\ log[7].ok /\ log[8].ok
    /\ result = SPI_GENERIC_ERROR

\* C20: every command within the limits registered with the host (at most
\* max_data_read bytes to read, at most max_data_write bytes to write) gets
\* past the check of writecnt and readcnt in send_command.
C20_LimitsAccepted ==
    (SendCommandDone /\ arg.readcnt <= max_data_read
       /\ arg.writecnt >= 1 /\ arg.writecnt <= max_data_write) =>
        ~(result = SPI_GENERIC_ERROR /\ log = <<>>)

----------------------------------------------------------------------------
(* Claims about the controller and the page window, checked under SpecCtl. *)

IsWrite(e, reg, val) == e.k = "W" /\ e.reg = reg /\ e.val = val

\* C9: map_page(block, page, byte) issues exactly three register writes,
\* 0x64 = block, 0x65 = page, 0x66 = byte, in that order, whichever of them
\* fail; it returns success iff all three succeeded and the generic error
\* otherwise.
C9_MapPageThreeWrites ==
    (op = "map_page" /\ pc = "done") =>
        /\ Len(log) = 3
        /\ IsWrite(log[1], \H64, arg.block)
        /\ IsWrite(log[2], \H65, arg.page)
        /\ IsWrite(log[3], \H66, arg.byte)
        /\ result = (IF AllOk THEN 0 ELSE SPI_GENERIC_ERROR)

\* the first write failed and the other two were issued and succeeded
C9_Witness ==
    /\ op = "map_page" /\ pc = "done" /\ Len(log) = 3
    /\ ~log[1].ok /\ log[2].ok /\ log[3].ok
    /\ arg.block = \HFF /\ arg.page = \H00 /\ arg.byte = \H01
    /\ result = SPI_GENERIC_ERROR

\* the address-setup writes are at positions j, j + 1, j + 2 of the log
SetupAt(j) ==
    /\ IsWrite(log[j], \HF4, \H9F)
    /\ IsWrite(log[j + 1], \HF5, \H10)
    /\ IsWrite(log[j + 2], \HF4, \HAB)

\* C10: every call of disable_protection, whichever accesses fail, issues the
\* address-setup writes 0xF4=0x9F, 0xF5=0x10, 0xF4=0xAB twice with one read of
\* 0xF5 between them, then writes 0xF5 with low bits 001, reads 0xD7 and writes
\* 0xD7 with bit 0 set; it returns success iff all ten accesses succeeded.
C10_DisableProtectionSequence ==
    (op = "disable_protection" /\ pc = "done") =>
        /\ Len(log) = 10
        /\ SetupAt(1)
        /\ log[4].k = "R" /\ log[4].reg = \HF5
        /\ SetupAt(5)
        /\ log[8].k = "W" /\ log[8].reg = \HF5 /\ log[8].val % 8 = 1
        /\ log[9].k = "R" /\ log[9].reg = \HD7
        /\ log[10].k = "W" /\ log[10].reg = \HD7 /\ log[10].val % 2 = 1
        /\ (result = 0) <=> AllOk

\* the read of the protection bits failed and the rest went through
C10_Witness ==
    /\ op = "disable_protection" /\ pc = "done" /\ Len(log) = 10
    /\ ~log[4].ok /\ \A j \in (1..10) \ {4} : log[j].ok
    /\ result # 0

\* C17: enter_isp_mode always issues its five register writes, in the order
\* 0x6F=0x80, 0xF4=0x9F, 0xF5=0x06, 0xF4=0xA0, 0xF5=0x74, whichever of them
\* fail, and returns success iff all five succeeded.
C17_EnterIspModeAllWrites ==
    (op = "enter_isp_mode" /\ pc = "done") =>
        /\ Len(log) = 5
        /\ IsWrite(log[1], \H6F, \H80)
        /\ IsWrite(log[2], \HF4, \H9F)
        /\ IsWrite(log[3], \HF5, \H06)
        /\ IsWrite(log[4], \HF4, \HA0)
        /\ IsWrite(log[5], \HF5, \H74)
        /\ (result = 0) <=> AllOk

\* the first and the third write failed and all five were issued
C17_Witness ==
    /\ op = "enter_isp_mode" /\ pc = "done" /\ Len(log) = 5
    /\ ~log[1].ok /\ log[2].ok /\ ~log[3].ok /\ log[4].ok /\ log[5].ok
    /\ result # 0

\* byte b with the bits of mask replaced by those of bits
Forced(b, mask, bits) == (b - BitAnd(b, mask)) + bits

\* C19: in every execution of reset_mpu and disable_protection, also when a
\* register read fails, the value written to 0xEE is the content of 0xEE with
\* bit 1 forced to 1, the value written to the protection register through
\* 0xF5 is its content with bits 2..0 forced to 001, and the value written to
\* 0xD7 is the content of 0xD7 with bit 0 forced to 1.
C19_OnlyDesignatedBits ==
    /\ (op = "reset_mpu" /\ pc = "done") =>
         log[2].val = Forced(log[1].n, \H02, \H02)
    /\ (op = "disable_protection" /\ pc = "done") =>
         /\ log[8].val = Forced(log[4].n, \H07, \H01)
         /\ log[10].val = Forced(log[9].n, \H01, \H01)

----------------------------------------------------------------------------
(* Claims about the paged bulk transfers, checked under SpecBulk. *)

InBulk == op \in {"read", "write_256"}

\* C7: bulk_read and bulk_write with a start whose low 8 bits are nonzero
\* return exactly what the generic fallback routine returns, and the engine
\* itself issues no register access at all (no page-window write, no data-port
\* access, no protection-disable sequence) before or after delegating.
C7_UnalignedDelegates ==
    (InBulk /\ arg.start % 256 # 0) =>
        /\ pc = "done"
        /\ log = <<>>
        /\ result = arg.fallback

C7_Witness ==
    /\ op = "write_256" /\ pc = "done" /\ arg.start = \H0203FF /\ arg.len = 300
    /\ arg.fallback = -3 /\ result = -3

\* the number of chunks of a transfer of len bytes, and the length of chunk
\* k (counted from 0)
NumChunks(len) == (len + 255) \div 256
ChunkLen(len, k) == IF 256 * (k + 1) <= len THEN 256 ELSE len - 256 * k

\* the traffic C8 states for chunk k of bulk_write(start, len): the page size
\* 0x71 = chunk_len - 1 before a final chunk shorter than 256 bytes only, the
\* page window with block = (start + 256k) >> 16, page = (start + 256k) >> 8,
\* byte = 0, the wait for the empty buffer, the chunk's bytes, the execution
ExpectedChunk(start, len, k) ==
    (IF k = NumChunks(len) - 1 /\ ChunkLen(len, k) < 256
     THEN <<WriteEntry(\H71, ChunkLen(len, k) - 1, TRUE)>>
     ELSE <<>>)
    \o << WriteEntry(\H64, ((start + 256 * k) \div 65536) % 256, TRUE),
          WriteEntry(\H65, ((start + 256 * k) \div 256) % 256, TRUE),
          WriteEntry(\H66, 0, TRUE),
          PollEntry(\H6F, 0),
          PageEntry(256 * k, ChunkLen(len, k), TRUE),
          WriteEntry(\H6F, \HA0, TRUE),
          PollEntry(\H6F, 0) >>

RECURSIVE ExpectedChunks(_, _, _)
ExpectedChunks(start, len, k) ==
    IF k >= NumChunks(len) THEN <<>>
    ELSE ExpectedChunk(start, len, k) \o ExpectedChunks(start, len, k + 1)

\* C8: for a page-aligned start and len > 0 with every hardware step
\* succeeding, bulk_write stages exactly ceil(len/256) chunks in ascending
\* address order, all of 256 bytes but possibly the last, summing to len; 0x71
\* is set to 255 once before the loop and to chunk_len - 1 only immediately
\* before a final chunk shorter than 256 bytes; chunk k is mapped to
\* block = (start + 256k) >> 16, page = (start + 256k) >> 8, byte = 0.
C8_WriteChunks ==
    (op = "write_256" /\ pc = "done" /\ arg.start % 256 = 0 /\ arg.len > 0
       /\ AllOk /\ result = 0) =>
        SubSeq(log, 11, Len(log))
          = << WriteEntry(\H6D, \H02, TRUE), WriteEntry(\H71, 255, TRUE) >>
              \o ExpectedChunks(arg.start, arg.len, 0)

\* 300 bytes from 0x0100FF00: 256 bytes to block 0x00, page 0xFF, then 0x71 = 43
\* and 44 bytes to block 0x01, page 0x00
C8_Witness ==
    /\ op = "write_256" /\ pc = "done" /\ result = 0
    /\ arg.start = \H0100FF00 /\ arg.len = 300
    /\ Len(log) = 27
    /\ log[13].val = \H00 /\ log[14].val = \HFF /\ log[17] = PageEntry(0, 256, TRUE)
    /\ log[20] = WriteEntry(\H71, 43, TRUE)
    /\ log[21].val = \H01 /\ log[22].val = \H00 /\ log[25] = PageEntry(256, 44, TRUE)

----------------------------------------------------------------------------
(* Claims about the session lifecycle, checked under SpecLife. *)

\* the positions of the log at which the handle is closed
Closes == {j \in 1..Len(log) : log[j].k = "CLOSE"}

\* C11: whatever the operations before it returned, shutdown performs
\* reset_mpu (the read of 0xEE, then the write of 0xEE with bit 1 set) and
\* then closes the handle, exactly once and also when the reset fails; no
\* register access follows the close, and nothing but shutdown closes.
C11_ShutdownResetsThenCloses ==
    /\ op = "shutdown" =>
         /\ Len(log) = 3
         /\ log[1].k = "R" /\ log[1].reg = \HEE
         /\ log[2].k = "W" /\ log[2].reg = \HEE /\ (log[2].val \div 2) % 2 = 1
         /\ Closes = {3}
         /\ fd = "closed"
    /\ op # "shutdown" => Closes = {}
    /\ fd = "closed" => (hook = "run" /\ (op = "shutdown" \/ log = <<>>))

\* a shutdown whose reset failed in both accesses, and closed the handle
C11_Witness ==
    /\ op = "shutdown" /\ pc = "done"
    /\ ~log[1].ok /\ ~log[2].ok /\ result # 0
    /\ fd = "closed" /\ mst_data = "freed"

\* C18: when realtek_mst_i2c_spi_init returns after i2c_open succeeded, the
\* handle is closed or owned by a session whose shutdown hook is registered.
C18_NoHandleLeak ==
    (op = "init" /\ pc = "done" /\ fd # "none") =>
        \/ fd = "closed"
        \/ (mst_data = "allocated" /\ hook = "registered")

\* start - 1 modulo 2^24, the address whose three bytes C15 states
WindowOf(start) == (start - 1) % 16777216

\* the accesses of the data port in the log
DataPortAt == {j \in 1..Len(log) : log[j].reg = \H70}

\* the chunk reads follow position 9 of the log: chunk k (counted from 0) is
\* a read of min(remaining, 256) bytes into buf + 256k, and only the last
\* one may have failed
ChunkReadsFrom9 ==
    \A j \in 10..Len(log) :
      /\ log[j] = DataEntry(256 * (j - 10), ChunkLen(arg.len, j - 10), log[j].ok)
      /\ j - 10 < NumChunks(arg.len)
      /\ j < Len(log) => log[j].ok

\* C15: for a page-aligned start, bulk_read programs the page window once
\* with the three bytes of (start - 1) modulo 2^24, in the order 0x60=0x46,
\* 0x61=0x03, map_page, 0x6a=0x03, 0x60=0x47, then polls 0x60 bit 0; only
\* after a successful poll it reads one dummy byte from the data port and
\* then makes ceil(len/256) chunk reads of min(remaining, 256) bytes filling
\* buf in order; a failing chunk read ends the loop with an error, and a
\* failed poll leaves the data port unread.
C15_ReadSequence ==
    (op = "read" /\ arg.start % 256 = 0) =>
        /\ Len(log) >= 7
        /\ IsWrite(log[1], \H60, \H46)
        /\ IsWrite(log[2], \H61, \H03)
        /\ IsWrite(log[3], \H64, WindowOf(arg.start) \div 65536)
        /\ IsWrite(log[4], \H65, (WindowOf(arg.start) \div 256) % 256)
        /\ IsWrite(log[5], \H66, WindowOf(arg.start) % 256)
        /\ IsWrite(log[6], \H6A, \H03)
        /\ IsWrite(log[7], \H60, \H47)
        /\ {j \in 1..Len(log) : log[j].reg \in {\H64, \H65, \H66}} = {3, 4, 5}
        /\ (\A j \in 1..7 : log[j].ok) =>
             \/ pc = "wait_loop" /\ Len(log) = 7
                  /\ w.offset = \H60 /\ w.mask = 1 /\ w.target = 0
             \/ Len(log) >= 8 /\ log[8].k = "POLL" /\ log[8].reg = \H60
        /\ DataPortAt # {} => (Len(log) >= 9 /\ log[8].k = "POLL" /\ log[8].ok)
        /\ (pc = "done" /\ Len(log) >= 8) =>
             IF ~log[8].ok
             THEN Len(log) = 8 /\ result = log[8].val /\ result # 0
             ELSE /\ log[9].k = "R" /\ log[9].reg = \H70
                  /\ ChunkReadsFrom9
                  /\ IF \A j \in 10..Len(log) : log[j].ok
                     THEN Len(log) = 9 + NumChunks(arg.len) /\ result = 0
                     ELSE result # 0

\* 300 bytes from address 0: the window is 0xFF, 0xFF, 0xFF, the dummy read
\* fails unnoticed, and the chunks are 256 and 44 bytes
C15_Witness ==
    /\ op = "read" /\ pc = "done" /\ arg.start = 0 /\ arg.len = 300 /\ result = 0
    /\ Len(log) = 11
    /\ log[3].val = \HFF /\ log[4].val = \HFF /\ log[5].val = \HFF
    /\ ~log[9].ok
    /\ log[10] = DataEntry(0, 256, TRUE) /\ log[11] = DataEntry(256, 44, TRUE)

\* position j of the log stages data, or triggers its execution
StagesOrExecutes(j) == log[j].k = "PAGE" \/ IsWrite(log[j], \H6F, \HA0)

\* the accesses of disable_protection are the first ten of the log
ProtectionFirst ==
    /\ Len(log) >= 10
    /\ SetupAt(1) /\ log[4].k = "R" /\ log[4].reg = \HF5
    /\ SetupAt(5) /\ log[8].k = "W" /\ log[8].reg = \HF5
    /\ log[9].k = "R" /\ log[9].reg = \HD7
    /\ log[10].k = "W" /\ log[10].reg = \HD7
    /\ {j \in 1..Len(log) : log[j].reg \in {\HF4, \HF5, \HD7}} = 1..10

\* the staging write at position j stands inside a chunk as C16 states
StagedInChunk(j) ==
    /\ j >= 15
    /\ IsWrite(log[j - 4], \H64, ((arg.start + log[j].val) \div 65536) % 256)
    /\ IsWrite(log[j - 3], \H65, ((arg.start + log[j].val) \div 256) % 256)
    /\ IsWrite(log[j - 2], \H66, 0)
    /\ log[j - 1] = PollEntry(\H6F, 0)
    /\ log[j].ok =>
         /\ Len(log) >= j + 1
         /\ IsWrite(log[j + 1], \H6F, \HA0)
         /\ IF Len(log) >= j + 2
            THEN log[j + 2].k = "POLL" /\ log[j + 2].reg = \H6F
            ELSE pc = "wait_loop" /\ w.offset = \H6F /\ w.mask = \H20 /\ w.target = 0

\* C16: in bulk_write with a page-aligned start, disable_protection runs once
\* and before any other traffic, and nothing else is written when it fails;
\* every data-port staging write is preceded within its chunk by the map_page
\* of the chunk's page and a successful wait for 0x6F & 0x10 == 0x10, and
\* followed by the trigger 0x6F = 0xA0 and a poll for 0x6F & 0x20 == 0; after
\* the first failing step no data is staged or executed, neither in that
\* chunk nor in a later one, and the function returns a failure.
C16_WriteSequence ==
    (op = "write_256" /\ arg.start % 256 = 0) =>
        /\ ProtectionFirst
        /\ (\E j \in 1..10 : ~log[j].ok) => (Len(log) = 10 /\ pc = "done")
        /\ \A j \in 1..Len(log) : log[j].k = "PAGE" => StagedInChunk(j)
        /\ (pc = "wait_loop" /\ log[Len(log)].reg = \H66) =>
             (w.offset = \H6F /\ w.mask = \H10 /\ w.target = \H10)
        /\ \A j \in 1..Len(log) : ~log[j].ok =>
             \A k \in (j + 1)..Len(log) : ~StagesOrExecutes(k)
        /\ (pc = "done" /\ ~AllOk) => result # 0

\* 300 bytes: the first chunk went through, the staging write of the second
\* failed and ended the call
C16_Witness ==
    /\ op = "write_256" /\ pc = "done" /\ arg.start = \H0100FF00 /\ arg.len = 300
    /\ Len(log) = 25
    /\ log[17] = PageEntry(0, 256, TRUE) /\ log[19] = PollEntry(\H6F, 0)
    /\ log[24] = PollEntry(\H6F, 0) /\ log[25] = PageEntry(256, 44, FALSE)
    /\ result = SPI_GENERIC_ERROR

====
